---- MODULE Spec2Model ----
(***************************************************************************)
(* Model of the prevailing-bias engine of TristanVam/financial_reflexivity *)
(* (package prevailing_bias): the z-score helpers, the Combiner            *)
(* (align_and_standardize, compute_prevailing_bias), the price extractor's *)
(* rolling_trend_slope, the sentiment aggregation and combiner, the        *)
(* prediction-market aggregator, the fragility engine,                     *)
(* PrevailingBiasModel.run and the dashboard that reads its result.        *)
(*                                                                         *)
(* The program is a library of pure functions over pandas Series and       *)
(* DataFrames.  A state of the model is one call: the function called      *)
(* (op), its arguments (args), whether it has run (pc) and, once it has,   *)
(* its outcome (ret).  Init draws the call and its arguments from bounded  *)
(* sets; one action per function applies it.  SpecCombiner, SpecZscore,    *)
(* SpecPrice, SpecSentiment, SpecAggregation, SpecPolymarket and           *)
(* SpecFragility are the calls of one source module each; SpecEngine adds  *)
(* run() to the Combiner, SpecDashboard steps through main(), whose pc is  *)
(* the section to render next; Spec is all of them.                        *)
(*                                                                         *)
(* Numbers.  The code computes in floating point; the model computes in    *)
(* exact real arithmetic.  A value is NaN or a finite sum of rational      *)
(* multiples of square roots of square-free naturals, which is closed      *)
(* under every operation the modelled code performs (+, -, *, division by  *)
(* a standard deviation, square root of a variance).                       *)
(***************************************************************************)
EXTENDS Integers, Sequences, FiniteSets, TLC

VARIABLES op, args, ret, pc

vars == <<op, args, ret, pc>>

-----------------------------------------------------------------------------
(* Rationals: <<n, d>> with d > 0 and gcd(n, d) = 1.                       *)

Abs(n) == IF n < 0 THEN -n ELSE n

RECURSIVE GCD(_, _)
GCD(a, b) == IF b = 0 THEN a ELSE GCD(b, a % b)

QNorm(n, d) ==
    LET s == IF d < 0 THEN -1 ELSE 1
        g == GCD(Abs(n), Abs(d))
    IN  <<(s * n) \div g, (s * d) \div g>>

Q(n, d) == QNorm(n, d)

\* a + b over the least common denominator, which keeps the integers small
QAdd(a, b) ==
    LET g == GCD(a[2], b[2])
    IN  QNorm(a[1] * (b[2] \div g) + b[1] * (a[2] \div g), (a[2] \div g) * b[2])

\* a * b, the common factors taken out before multiplying
QMul(a, b) ==
    LET g == GCD(Abs(a[1]), b[2])
        h == GCD(Abs(b[1]), a[2])
    IN  <<(a[1] \div g) * (b[1] \div h), (a[2] \div h) * (b[2] \div g)>>

QInv(a) == QNorm(a[2], a[1])

-----------------------------------------------------------------------------
(* Values.  A real is a function from square-free naturals s to non-zero   *)
(* rationals c, standing for the sum of c * sqrt(s); the empty function is *)
(* 0 and a rational r is (1 :> r).  NaN is the one value whose domain      *)
(* holds 0.                                                                *)

NaN == (0 :> <<0, 1>>)

IsNaN(v) == 0 \in DOMAIN v

Zero == <<>>

FromQ(r) == IF r[1] = 0 THEN Zero ELSE (1 :> r)

Num(n, d) == FromQ(Q(n, d))

Int2V(n) == Num(n, 1)

IsRational(v) == DOMAIN v \subseteq {1}

AsQ(v) == IF v = Zero THEN <<0, 1>> ELSE v[1]

\* The largest k with k * k dividing m, the prime factors below p taken out
RECURSIVE SquareFactor(_, _)
SquareFactor(m, p) ==
    IF p * p > m THEN 1
    ELSE IF m % (p * p) = 0 THEN p * SquareFactor(m \div (p * p), p)
    ELSE IF m % p = 0 THEN SquareFactor(m \div p, p + 1)
    ELSE SquareFactor(m, p + 1)

\* The largest k with k * k dividing m (m >= 1): sqrt(m) = k * sqrt(m / k^2)
SquarePart(m) == SquareFactor(m, 2)

Coef(v, s) == IF s \in DOMAIN v THEN v[s] ELSE <<0, 1>>

Prune(f) == [s \in {t \in DOMAIN f : f[t][1] # 0} |-> f[s]]

RealAdd(a, b) ==
    Prune([s \in DOMAIN a \cup DOMAIN b |-> QAdd(Coef(a, s), Coef(b, s))])

RealScale(q, a) == Prune([s \in DOMAIN a |-> QMul(q, a[s])])

\* c * sqrt(s) * d * sqrt(t) = c * d * k * sqrt(s * t / k^2), k = SquarePart(s * t)
TermMul(s, c, t, d) ==
    LET k == SquarePart(s * t)
    IN  ((s * t) \div (k * k)) :> QMul(QMul(c, d), <<k, 1>>)

RECURSIVE RealSumSet(_)
RealSumSet(S) ==
    IF S = {} THEN Zero
    ELSE LET x == CHOOSE y \in S : TRUE
         IN  RealAdd(x, RealSumSet(S \ {x}))

RECURSIVE RealMulPairs(_, _, _)
RealMulPairs(a, b, P) ==
    IF P = {} THEN Zero
    ELSE LET p == CHOOSE y \in P : TRUE
         IN  RealAdd(TermMul(p[1], a[p[1]], p[2], b[p[2]]),
                     RealMulPairs(a, b, P \ {p}))

RealMul(a, b) ==
    IF a = Zero \/ b = Zero THEN Zero
    ELSE IF Cardinality(DOMAIN a) = 1 /\ Cardinality(DOMAIN b) = 1
    THEN LET s == CHOOSE x \in DOMAIN a : TRUE
             u == CHOOSE x \in DOMAIN b : TRUE
         IN  TermMul(s, a[s], u, b[u])
    ELSE RealMulPairs(a, b, (DOMAIN a) \X (DOMAIN b))

\* 1 / (c * sqrt(s)) = (1 / (c * s)) * sqrt(s); only a one-term real is inverted
\* (every divisor in the modelled code is a standard deviation or a rational).
RealInv(a) ==
    LET s == CHOOSE t \in DOMAIN a : TRUE
    IN  s :> QInv(QMul(a[s], <<s, 1>>))

\* sqrt(n / d) = sqrt(n * d) / d, for a rational n / d >= 0
RealSqrt(a) ==
    IF a = Zero THEN Zero
    ELSE LET n == a[1][1]
             d == a[1][2]
             k == SquarePart(n * d)
         IN  ((n * d) \div (k * k)) :> Q(k, d)

(* Floating-point operations on values: NaN propagates, 0 / 0 is NaN.      *)

Add(a, b) == IF IsNaN(a) \/ IsNaN(b) THEN NaN ELSE RealAdd(a, b)

Neg(a) == IF IsNaN(a) THEN NaN ELSE RealScale(<<-1, 1>>, a)

Sub(a, b) == Add(a, Neg(b))

Mul(a, b) == IF IsNaN(a) \/ IsNaN(b) THEN NaN ELSE RealMul(a, b)

\* x / 0 with x # 0 (an infinity) arises nowhere in the modelled code: every
\* divisor that can be 0 is a standard deviation, and then every dividend is a
\* deviation from the mean of an all-equal column, hence 0 or NaN.
Div(a, b) ==
    IF IsNaN(a) \/ IsNaN(b) \/ b = Zero THEN NaN ELSE RealMul(a, RealInv(b))

Sqrt(a) == IF IsNaN(a) THEN NaN ELSE RealSqrt(a)

-----------------------------------------------------------------------------
(* pandas.  A Series is a function from its index (a set of dates, kept in *)
(* ascending order) to values.  An optional argument is <<>> (None) or     *)
(* <<x>>.  A DataFrame is a record: the row index, the column names in     *)
(* order, and one Series over the index per column.                        *)

None == <<>>

Some(x) == <<x>>

EmptySeries == <<>>

EmptyFrame == [index |-> {}, columns |-> <<>>, data |-> <<>>]

Range(f) == {f[x] : x \in DOMAIN f}

\* The outcome of a call: the value returned, or the exception raised
Returned(v) == [raised |-> "none", value |-> v]

Raised(e) == [raised |-> e, value |-> None]

NotNa(s) == {d \in DOMAIN s : ~IsNaN(s[d])}

RECURSIVE SumOver(_, _)
SumOver(s, D) ==
    IF D = {} THEN Zero
    ELSE LET d == CHOOSE x \in D : TRUE
         IN  Add(s[d], SumOver(s, D \ {d}))

\* Series.mean(): missing entries are skipped; NaN when nothing is left
Mean(s) ==
    IF NotNa(s) = {} THEN NaN
    ELSE Div(SumOver(s, NotNa(s)), Int2V(Cardinality(NotNa(s))))

\* Series.std(ddof=0): population standard deviation of the entries present
Std0(s) ==
    IF NotNa(s) = {} THEN NaN
    ELSE LET m   == Mean(s)
             dev == [d \in NotNa(s) |-> Mul(Sub(s[d], m), Sub(s[d], m))]
         IN  Sqrt(Div(SumOver(dev, NotNa(s)), Int2V(Cardinality(NotNa(s)))))

\* A series on a larger index, missing where it has no entry: a column of an
\* outer join (Series.align(join="outer"), pd.concat(axis=1))
Reindex(s, idx) == [d \in idx |-> IF d \in DOMAIN s THEN s[d] ELSE NaN]

\* DataFrame.empty: no rows or no columns
FrameEmpty(df) == df.index = {} \/ df.columns = <<>>

\* pd.concat(series, axis=1, join="inner") of named series
ConcatInner(named) ==
    LET idx == {d \in DOMAIN named[1].values :
                  \A i \in DOMAIN named : d \in DOMAIN named[i].values}
    IN  [index   |-> idx,
         columns |-> [i \in DOMAIN named |-> named[i].name],
         data    |-> [c \in {named[i].name : i \in DOMAIN named} |->
                        LET i == CHOOSE j \in DOMAIN named : named[j].name = c
                        IN  [d \in idx |-> named[i].values[d]]]]

\* DataFrame.dropna(how="all"): drop the rows whose every entry is missing
DropNaAll(df) ==
    LET keep == {d \in df.index : \E c \in Range(df.columns) : ~IsNaN(df.data[c][d])}
    IN  [index   |-> keep,
         columns |-> df.columns,
         data    |-> [c \in DOMAIN df.data |-> [d \in keep |-> df.data[c][d]]]]

-----------------------------------------------------------------------------
(* model/prevailing_bias_model.py                                          *)

model_zscore_noguard(series, name) ==
    IF series = None \/ series[1] = EmptySeries
    THEN [name |-> name, values |-> EmptySeries]
    ELSE LET s    == series[1]
             mean == Mean(s)
             std  == Std0(s)
         IN  [name   |-> name,
              values |-> [d \in DOMAIN s |-> Div(Sub(s[d], mean), std)]]

model_zscore(series, name) ==
    IF series = None \/ series[1] = EmptySeries
    THEN [name |-> name, values |-> EmptySeries]
    ELSE LET s    == series[1]
             mean == Mean(s)
             std  == Std0(s)
         IN  IF std = Zero \/ IsNaN(std)
             THEN [name |-> name, values |-> [d \in DOMAIN s |-> Zero]]
             ELSE [name   |-> name,
                   values |-> [d \in DOMAIN s |-> Div(Sub(s[d], mean), std)]]

\* The (keyword, column) pairs in the order the code visits them
ComponentKeys == <<"price", "news", "social", "options", "polymarket">>

ColumnOf(key) ==
    CASE key = "price"      -> "price_bias_z"
      [] key = "news"       -> "news_bias_z"
      [] key = "social"     -> "social_bias_z"
      [] key = "options"    -> "options_bias_z"
      [] key = "polymarket" -> "polymarket_bias_z"

RECURSIVE ComponentsWithData(_, _)
ComponentsWithData(comps, i) ==
    IF i > Len(ComponentKeys) THEN <<>>
    ELSE LET key == ComponentKeys[i]
         IN  (IF comps[key] # None /\ comps[key][1] # EmptySeries
              THEN <<model_zscore(comps[key], ColumnOf(key))>>
              ELSE <<>>) \o ComponentsWithData(comps, i + 1)

\* The components dict of align_and_standardize: the supplied ones, in order
RECURSIVE Components(_, _)
Components(comps, i) ==
    IF i > Len(ComponentKeys) THEN <<>>
    ELSE LET key == ComponentKeys[i]
         IN  (IF comps[key] # None
              THEN <<model_zscore(comps[key], ColumnOf(key))>>
              ELSE <<>>) \o Components(comps, i + 1)

align_outer(comps) ==
    LET components == Components(comps, 1)
        idx == UNION {DOMAIN components[i].values : i \in DOMAIN components}
    IN  IF components = <<>> THEN EmptyFrame
        ELSE DropNaAll(
               [index   |-> idx,
                columns |-> [i \in DOMAIN components |-> components[i].name],
                data    |-> [c \in {components[i].name : i \in DOMAIN components} |->
                              LET i == CHOOSE j \in DOMAIN components :
                                          components[j].name = c
                              IN  [d \in idx |->
                                     IF d \in DOMAIN components[i].values
                                     THEN components[i].values[d] ELSE NaN]]])

align_and_standardize(comps) ==
    LET components == Components(comps, 1)
    IN  IF components = <<>> THEN EmptyFrame
        ELSE DropNaAll(ConcatInner(components))

default_weights ==
    [price      |-> Num(2, 5),
     news       |-> Num(1, 5),
     social     |-> Num(3, 20),
     options    |-> Num(1, 10),
     polymarket |-> Num(3, 20)]

\* dict.get(key, 0.0)
DictGet(dict, key) == IF key \in DOMAIN dict THEN dict[key] ELSE Zero

\* sum(...) over a sequence of values, left to right from 0
RECURSIVE SumSeq(_)
SumSeq(q) == IF q = <<>> THEN Zero ELSE Add(SumSeq(SubSeq(q, 1, Len(q) - 1)), q[Len(q)])

\* weights or default_weights: None and the empty dict are both falsy
WeightMapOf(weights) ==
    IF weights = None \/ weights[1] = <<>> THEN default_weights ELSE weights[1]

\* available_weights: for each key whose column is in the frame, in visiting
\* order, the column and weight_map.get(key, 0.0)
AvailableWeights(features, weight_map) ==
    LET keys == SelectSeq(ComponentKeys,
                          LAMBDA k : ColumnOf(k) \in Range(features.columns))
    IN  [i \in DOMAIN keys |->
            [col |-> ColumnOf(keys[i]), w |-> DictGet(weight_map, keys[i])]]

WeightSumUnit(available_weights) == Int2V(1)

\* weight_sum = sum(available_weights.values())
WeightSum(available_weights) ==
    SumSeq([i \in DOMAIN available_weights |-> available_weights[i].w])

\* weighted_sum = sum(features[col] * w for col, w in available_weights.items())
WeightedSum(features, available_weights) ==
    [d \in features.index |->
        SumSeq([i \in DOMAIN available_weights |->
                  Mul(features.data[available_weights[i].col][d],
                      available_weights[i].w)])]

\* features.assign(prevailing_bias=prevailing)
AssignPrevailingBias(features, prevailing) ==
    [index   |-> features.index,
     columns |-> Append(features.columns, "prevailing_bias"),
     data    |-> [c \in DOMAIN features.data \cup {"prevailing_bias"} |->
                    IF c = "prevailing_bias" THEN prevailing ELSE features.data[c]]]

\* if weight_sum == 0: return features; otherwise weighted_sum / weight_sum
Renormalize(features, available_weights, weight_sum) ==
    IF weight_sum = Zero THEN features
    ELSE AssignPrevailingBias(
           features,
           [d \in features.index |->
              Div(WeightedSum(features, available_weights)[d], weight_sum)])

\* if features.empty: return features; otherwise the weights of the columns present
CombineFeatures(features, weight_map) ==
    IF FrameEmpty(features) THEN features
    ELSE Renormalize(features, AvailableWeights(features, weight_map),
                     WeightSum(AvailableWeights(features, weight_map)))

compute_prevailing_bias(comps, weights) ==
    CombineFeatures(align_and_standardize(comps), WeightMapOf(weights))

-----------------------------------------------------------------------------
(* model/fragility.py                                                      *)

\* (combined - combined.mean()) / combined.std(ddof=0), one column: the
\* division is not guarded, so a column of standard deviation 0 becomes 0 / 0
JointZ(col) ==
    LET mean == Mean(col)
        std  == Std0(col)
    IN  [d \in DOMAIN col |-> Div(Sub(col[d], mean), std)]

\* The rows of a rolling window of `window` rows ending at date d
Trailing(idx, d, window) ==
    {e \in idx : e <= d /\ Cardinality({f \in idx : e < f /\ f <= d}) < window}

\* Series.rolling(window, min_periods).std(ddof=0): undefined below
\* min_periods observations, and with none at all
RollingStd0(s, window, min_periods) ==
    [d \in DOMAIN s |->
        LET w   == Trailing(DOMAIN s, d, window)
            obs == [e \in {x \in w : ~IsNaN(s[x])} |-> s[e]]
        IN  IF Cardinality(DOMAIN obs) < min_periods \/ DOMAIN obs = {} THEN NaN
            ELSE Std0(obs)]

\* Series.rolling(window, min_periods).mean()
RollingMean(s, window, min_periods) ==
    [d \in DOMAIN s |->
        LET w   == Trailing(DOMAIN s, d, window)
            obs == [e \in {x \in w : ~IsNaN(s[x])} |-> s[e]]
        IN  IF Cardinality(DOMAIN obs) < min_periods \/ DOMAIN obs = {} THEN NaN
            ELSE Mean(obs)]

\* int(window * 0.5) and window // 2, for window >= 0
Half(window) == window \div 2

Max(a, b) == IF a >= b THEN a ELSE b

bias_fragility(price_score, sentiment_score, window) ==
    LET idx       == DOMAIN price_score \cup DOMAIN sentiment_score
        combined  == <<Reindex(price_score, idx), Reindex(sentiment_score, idx)>>
        z         == [c \in 1..2 |-> JointZ(combined[c])]
        fragility == [c \in 1..2 |-> RollingStd0(z[c], window, Half(window))]
    IN  [d \in idx |-> Mean(<<fragility[1][d], fragility[2][d]>>)]

polymarket_divergence_outer(prevailing_bias, polymarket_bias, window) ==
    LET idx        == DOMAIN prevailing_bias \cup DOMAIN polymarket_bias
        z_prev     == JointZ(Reindex(prevailing_bias, idx))
        z_poly     == JointZ(Reindex(polymarket_bias, idx))
        divergence == [d \in idx |-> Sub(z_prev[d], z_poly[d])]
    IN  IF window > 1
        THEN RollingMean(divergence, window, Max(1, Half(window)))
        ELSE divergence

compute_polymarket_divergence(prevailing_bias, polymarket_bias, window) ==
    LET idx        == DOMAIN prevailing_bias \cap DOMAIN polymarket_bias
        z_prev     == JointZ([d \in idx |-> prevailing_bias[d]])
        z_poly     == JointZ([d \in idx |-> polymarket_bias[d]])
        divergence == [d \in idx |-> Sub(z_prev[d], z_poly[d])]
    IN  IF prevailing_bias = EmptySeries \/ polymarket_bias = EmptySeries
        THEN EmptySeries
        ELSE IF idx = {} THEN EmptySeries
        ELSE IF window > 1
             THEN RollingMean(divergence, window, Max(1, Half(window)))
             ELSE divergence

-----------------------------------------------------------------------------
(* price/price_features.py                                                 *)

price_zscore(series) ==
    LET mean == Mean(series)
        std  == Std0(series)
    IN  IF std = Zero \/ IsNaN(std)
        THEN [d \in DOMAIN series |-> Zero]
        ELSE [d \in DOMAIN series |-> Div(Sub(series[d], mean), std)]

\* np.log of a close, in units of ln 2: the closes of the model are powers of
\* two, whose logarithms are then whole numbers (log(2^k) = k ln 2), and the
\* slope, linear in the log prices, comes out in the same unit.
Log2(v) ==
    IF IsNaN(v) THEN NaN
    ELSE Int2V(CHOOSE k \in 0..AsQ(v)[1] : 2^k = AsQ(v)[1])

\* _validate_close: the error raised, or "none"
validate_close(df) ==
    IF ~df.has_close THEN "ValueError"
    ELSE IF ~df.datetime_index THEN "ValueError"
    ELSE "none"

\* The body of the loop of rolling_trend_slope at 0-based position i, once
\* i + 1 >= window: y is the slice iloc[i + 1 - window : i + 1], 1-based here
SlopeAt(log_price, i, window) ==
    LET y      == [j \in 1..window |-> log_price[i + 1 - window + j]]
        x      == [j \in 1..window |-> Int2V(j - 1)]
        x_mean == Mean(x)
        y_mean == Mean(y)
        denom  == SumSeq([j \in 1..window |->
                            Mul(Sub(x[j], x_mean), Sub(x[j], x_mean))])
        slope  == IF denom # Zero
                  THEN Div(SumSeq([j \in 1..window |->
                                     Mul(Sub(x[j], x_mean), Sub(y[j], y_mean))]),
                           denom)
                  ELSE NaN
    IN  Mul(slope, Int2V(window))

rolling_trend_slope_late(df, window) ==
    IF validate_close(df) # "none" THEN Raised(validate_close(df))
    ELSE LET log_price == [r \in DOMAIN df.Close |-> Log2(df.Close[r])]
         IN  Returned([r \in DOMAIN df.Close |->
                         IF r - 1 < window THEN NaN
                         ELSE SlopeAt(log_price, r - 1, window)])

\* Rows are numbered from 1: row r is the code's position i = r - 1
rolling_trend_slope(df, window) ==
    IF validate_close(df) # "none" THEN Raised(validate_close(df))
    ELSE LET log_price == [r \in DOMAIN df.Close |-> Log2(df.Close[r])]
         IN  Returned([r \in DOMAIN df.Close |->
                         IF (r - 1) + 1 < window THEN NaN
                         ELSE SlopeAt(log_price, r - 1, window)])

-----------------------------------------------------------------------------
(* sentiment/aggregation.py                                                *)

\* The table of scored items is a record: the set of its column names and
\* its rows, each a function from the columns to the row's cells.  A missing
\* date is NaT, a missing sentiment is NaN.
NaT == 0

required_cols == {"date", "channel", "sentiment"}

\* DataFrame.empty of the table: no rows or no columns
TableEmpty(df) == df.rows = <<>> \/ df.columns = {}

\* pd.DataFrame(columns=["date", "channel", "sentiment"])
EmptySentimentTable ==
    [index   |-> {},
     columns |-> <<"date", "channel", "sentiment">>,
     data    |-> [c \in required_cols |-> EmptySeries]]

\* raise ValueError(f"Missing columns: {missing}")
MissingColumns(missing) == [raised |-> "ValueError", value |-> missing]

\* groupby(["date", "channel"]): the rows of one group; rows whose date is
\* missing are in no group (dropna=True)
GroupRows(df, date, channel) ==
    {i \in DOMAIN df.rows : /\ df.rows[i].date # NaT
                            /\ df.rows[i].date = date
                            /\ df.rows[i].channel = channel}

\* ["sentiment"].mean() of one group
GroupMean(df, date, channel) ==
    Mean([i \in GroupRows(df, date, channel) |-> df.rows[i].sentiment])

\* The labels pivot sorts the columns by
ChannelOrder == <<"news", "social">>

\* .reset_index().pivot(index="date", columns="channel", values="sentiment"):
\* a row per date and a column per channel of the groups, NaN where the
\* pair is no group
Pivot(df) ==
    LET grouped == {i \in DOMAIN df.rows : df.rows[i].date # NaT}
        dates   == {df.rows[i].date : i \in grouped}
        chans   == {df.rows[i].channel : i \in grouped}
    IN  [index   |-> dates,
         columns |-> SelectSeq(ChannelOrder, LAMBDA c : c \in chans),
         data    |-> [c \in chans |-> [d \in dates |-> GroupMean(df, d, c)]]]

aggregate_validate_first(df) ==
    IF required_cols \ df.columns # {}
    THEN MissingColumns(required_cols \ df.columns)
    ELSE IF TableEmpty(df) THEN Returned(EmptySentimentTable)
    ELSE Returned(Pivot(df))

aggregate_daily_sentiment(df) ==
    IF TableEmpty(df) THEN Returned(EmptySentimentTable)
    ELSE IF required_cols \ df.columns # {}
    THEN MissingColumns(required_cols \ df.columns)
    ELSE Returned(Pivot(df))

\* Series.fillna(value): a NaN value fills nothing
FillNa(s, value) == [d \in DOMAIN s |-> IF IsNaN(s[d]) THEN value ELSE s[d]]

combine_fill_zero(news, social, weight_news) ==
    LET idx            == DOMAIN news \cup DOMAIN social
        news_filled    == FillNa(Reindex(news, idx), Zero)
        social_filled  == FillNa(Reindex(social, idx), Zero)
    IN  [d \in idx |-> Add(Mul(weight_news, news_filled[d]),
                           Mul(Sub(Int2V(1), weight_news), social_filled[d]))]

combine_sentiment_scores(news, social, weight_news) ==
    LET idx            == DOMAIN news \cup DOMAIN social
        news_aligned   == Reindex(news, idx)
        social_aligned == Reindex(social, idx)
        news_filled    == FillNa(news_aligned, Mean(news_aligned))
        social_filled  == FillNa(social_aligned, Mean(social_aligned))
    IN  [d \in idx |-> Add(Mul(weight_news, news_filled[d]),
                           Mul(Sub(Int2V(1), weight_news), social_filled[d]))]

-----------------------------------------------------------------------------
(* prediction_markets/polymarket.py                                        *)
(* series_dict is a function from market ids to series; the order of its   *)
(* keys does not enter the result, a sum.                                  *)

\* The index of pd.concat(series_dict.values(), axis=1, join="inner")
InnerIndex(series_dict) ==
    {d \in UNION {DOMAIN series_dict[m] : m \in DOMAIN series_dict} :
        \A m \in DOMAIN series_dict : d \in DOMAIN series_dict[m]}

\* weights.get(col, 0.0) for each column, uniform 1.0 when weights is None
AlignedWeights(series_dict, weights) ==
    [col \in DOMAIN series_dict |->
        IF weights = None THEN Int2V(1) ELSE DictGet(weights[1], col)]

RECURSIVE SumCols(_, _)
SumCols(f, C) ==
    IF C = {} THEN Zero
    ELSE LET c == CHOOSE x \in C : TRUE
         IN  Add(f[c], SumCols(f, C \ {c}))

polymarket_bias_standardized(series_dict, weights) ==
    LET idx == InnerIndex(series_dict)
        aligned_weights == AlignedWeights(series_dict, weights)
        z == [col \in DOMAIN series_dict |->
                price_zscore([d \in idx |-> Sub(series_dict[col][d], Num(1, 2))])]
    IN  IF DOMAIN series_dict = {} \/ idx = {} THEN EmptySeries
        ELSE IF SumCols(aligned_weights, DOMAIN series_dict) = Zero THEN EmptySeries
        ELSE [d \in idx |->
                SumCols([col \in DOMAIN series_dict |->
                           Mul(z[col][d], aligned_weights[col])],
                        DOMAIN series_dict)]

polymarket_bias_unguarded(series_dict, weights) ==
    LET idx == InnerIndex(series_dict)
        aligned_weights == AlignedWeights(series_dict, weights)
    IN  IF DOMAIN series_dict = {} \/ idx = {} THEN EmptySeries
        ELSE [d \in idx |->
                SumCols([col \in DOMAIN series_dict |->
                           Mul(Sub(series_dict[col][d], Num(1, 2)),
                               aligned_weights[col])],
                        DOMAIN series_dict)]

polymarket_bias_normalized(series_dict, weights) ==
    LET idx             == InnerIndex(series_dict)
        aligned_weights == AlignedWeights(series_dict, weights)
        weight_sum      == SumCols(aligned_weights, DOMAIN series_dict)
    IN  IF DOMAIN series_dict = {} \/ idx = {} THEN EmptySeries
        ELSE IF weight_sum = Zero THEN EmptySeries
        ELSE [d \in idx |->
                Div(SumCols([col \in DOMAIN series_dict |->
                               Mul(Sub(series_dict[col][d], Num(1, 2)),
                                   aligned_weights[col])],
                            DOMAIN series_dict),
                    weight_sum)]

compute_polymarket_bias(series_dict, weights) ==
    LET idx             == InnerIndex(series_dict)
        aligned_weights == AlignedWeights(series_dict, weights)
        weight_sum      == SumCols(aligned_weights, DOMAIN series_dict)
        centered        == [col \in DOMAIN series_dict |->
                              [d \in idx |-> Sub(series_dict[col][d], Num(1, 2))]]
        weighted        == [d \in idx |->
                              SumCols([col \in DOMAIN series_dict |->
                                         Mul(centered[col][d], aligned_weights[col])],
                                      DOMAIN series_dict)]
    IN  IF DOMAIN series_dict = {} THEN EmptySeries
        ELSE IF idx = {} THEN EmptySeries
        ELSE IF weight_sum = Zero THEN EmptySeries
        ELSE weighted

-----------------------------------------------------------------------------
(* The calls.  pc is "call" before the function runs and "return" after;   *)
(* ret is [raised, value]: the exception raised ("none" when the call      *)
(* returned) and the value returned.                                       *)

MaxDate == 3

Dates == 1..MaxDate

RawValues == {Int2V(0), Int2V(1), NaN}

\* Every series over a set of dates with entries 0, 1 or missing
AllSeries == UNION {[D -> RawValues] : D \in SUBSET Dates}

Ramp(D) == [d \in D |-> Int2V(d)]

Zeros(D) == [d \in D |-> Zero]

Step(D) == [d \in D |-> IF d = MaxDate THEN Int2V(1) ELSE Zero]

Call(f) == pc = "call" /\ op = f

Done(f) == pc = "return" /\ op = f

Return(r) == pc' = "return" /\ ret' = r /\ UNCHANGED <<op, args>>

\* The component arguments: price over every series, the others over a few
ComponentInputs ==
    [price      : {None} \cup {Some(s) : s \in AllSeries},
     news       : {None, Some(Ramp(2..MaxDate)), Some(EmptySeries)},
     social     : {None, Some(Step(Dates))},
     options    : {None, Some(Zeros(Dates))},
     polymarket : {None, Some(Ramp(1..(MaxDate - 1)))}]

\* weights: None, the empty dict, a map of two keys, a map with a zero weight
WeightInputs ==
    {None,
     Some(<<>>),
     Some([price |-> Int2V(1), news |-> Int2V(3)]),
     Some([price |-> Zero, social |-> Int2V(2)])}

InitCombiner ==
    /\ pc = "call"
    /\ ret = None
    /\ \/ op = "align_and_standardize" /\ args \in [comps : ComponentInputs]
       \/ op = "compute_prevailing_bias"
          /\ args \in [comps : ComponentInputs, weights : WeightInputs]

AlignAndStandardize ==
    /\ Call("align_and_standardize")
    /\ Return(Returned(align_and_standardize(args.comps)))

ComputePrevailingBias ==
    /\ Call("compute_prevailing_bias")
    /\ Return(Returned(compute_prevailing_bias(args.comps, args.weights)))

NextCombiner == AlignAndStandardize \/ ComputePrevailingBias

SpecCombiner == InitCombiner /\ [][NextCombiner]_vars

-----------------------------------------------------------------------------
(* Claims about the Combiner, checked under SpecCombiner.                  *)

\* The components supplied to the call (not None)
Supplied == {k \in Range(ComponentKeys) : args.comps[k] # None}

\* The weight the caller's weight map gives a key: the default map when no map
\* is passed, and 0 for a key the map omits
GivenWeight(k) ==
    IF args.weights = None THEN default_weights[k] ELSE DictGet(args.weights[1], k)

RECURSIVE SumKeys(_, _)
SumKeys(f, K) ==
    IF K = {} THEN Zero
    ELSE LET k == CHOOSE x \in K : TRUE
         IN  Add(f[k], SumKeys(f, K \ {k}))

GivenWeightSum == SumKeys([k \in Supplied |-> GivenWeight(k)], Supplied)

EffectiveWeight(k) == Div(GivenWeight(k), GivenWeightSum)

HasColumn(df, c) == c \in Range(df.columns)

\* C1: when the weights of the supplied components sum to a non-zero value,
\* prevailing_bias at every row is the sum over the supplied components of
\* (weight / sum of the supplied components' weights) * z-scored column, so no
\* absent component's weight enters the numerator or the denominator.
C1_Renormalized ==
    Done("compute_prevailing_bias") /\ GivenWeightSum # Zero =>
        \A d \in ret.value.index :
            /\ HasColumn(ret.value, "prevailing_bias")
            /\ ret.value.data["prevailing_bias"][d] =
                 SumKeys([k \in Supplied |->
                            Mul(EffectiveWeight(k), ret.value.data[ColumnOf(k)][d])],
                         Supplied)

\* C1 witness: only price and news supplied, default weights, a row with a
\* defined composite, effective weights 0.40/0.60 and 0.20/0.60.
C1_Witness ==
    /\ Done("compute_prevailing_bias")
    /\ Supplied = {"price", "news"}
    /\ args.weights = None
    /\ EffectiveWeight("price") = Num(2, 3)
    /\ EffectiveWeight("news") = Num(1, 3)
    /\ HasColumn(ret.value, "prevailing_bias")
    /\ \E d \in ret.value.index :
          /\ ~IsNaN(ret.value.data["prevailing_bias"][d])
          /\ ~IsRational(ret.value.data["prevailing_bias"][d])

\* C2: whenever the weights of the supplied components sum to 0 (a weight map
\* that omits every supplied component included), compute_prevailing_bias
\* raises nothing and returns the frame of align_and_standardize, without a
\* prevailing_bias column.
C2_ZeroWeightSum ==
    Done("compute_prevailing_bias") /\ GivenWeightSum = Zero =>
        /\ ret.raised = "none"
        /\ ret.value = align_and_standardize(args.comps)
        /\ ~HasColumn(ret.value, "prevailing_bias")

\* C2, for the weight maps the code does not replace by the defaults: the
\* claim holds of every weight map that is not the empty dict.
C2_NonEmptyMap ==
    Done("compute_prevailing_bias") /\ GivenWeightSum = Zero
      /\ args.weights # Some(<<>>) =>
        /\ ret.raised = "none"
        /\ ret.value = align_and_standardize(args.comps)
        /\ ~HasColumn(ret.value, "prevailing_bias")

\* The intersection of the date indices of the supplied components
CommonDates ==
    {d \in Dates : \A k \in Supplied : d \in DOMAIN args.comps[k][1]}

\* One column per supplied component, in the order of the parameters
SuppliedColumns ==
    LET keys == SelectSeq(ComponentKeys, LAMBDA k : k \in Supplied)
    IN  [i \in DOMAIN keys |-> ColumnOf(keys[i])]

\* C3 as stated: the row index of the frame is exactly the intersection of the
\* date indices of the supplied components, with one column per supplied
\* component; with no component supplied the frame is empty.
C3_IndexIsIntersection ==
    Done("align_and_standardize") =>
        IF Supplied = {} THEN ret.value = EmptyFrame
        ELSE /\ ret.value.index = CommonDates
             /\ ret.value.columns = SuppliedColumns

\* The z-scored entry of a component at a date is undefined exactly when the
\* raw entry is missing and the component has two different defined entries
\* (a non-zero standard deviation)
Varies(s) == \E d, e \in NotNa(s) : s[d] # s[e]

UndefinedAt(k, d) == IsNaN(args.comps[k][1][d]) /\ Varies(args.comps[k][1])

\* C3 amended: the row index is the intersection of the date indices of the
\* supplied components less the dates at which every supplied component's
\* z-scored entry is undefined, with one column per supplied component; with
\* no component supplied the frame is empty.
C3_IndexIsIntersectionLessAllMissing ==
    Done("align_and_standardize") =>
        IF Supplied = {} THEN ret.value = EmptyFrame
        ELSE /\ ret.value.index =
                  {d \in CommonDates : \E k \in Supplied : ~UndefinedAt(k, d)}
             /\ ret.value.columns = SuppliedColumns

\* C3 witness: price and news with different date indices, joined on the dates
\* they share, two of them, while price has a date of its own.
C3_Witness ==
    /\ Done("align_and_standardize")
    /\ Supplied = {"price", "news"}
    /\ DOMAIN args.comps["price"][1] # DOMAIN args.comps["news"][1]
    /\ DOMAIN args.comps["price"][1] = Dates
    /\ ret.value.index = CommonDates
    /\ Cardinality(ret.value.index) >= 2
    /\ ret.value.columns = <<"price_bias_z", "news_bias_z">>

\* C5: in every frame returned by align_and_standardize or
\* compute_prevailing_bias, every row has a defined value in every column.
C5_NoMissingEntry ==
    Done("align_and_standardize") \/ Done("compute_prevailing_bias") =>
        \A d \in ret.value.index : \A c \in Range(ret.value.columns) :
            ~IsNaN(ret.value.data[c][d])

-----------------------------------------------------------------------------
(* The two z-score helpers, called on every series.                        *)

InitZscore ==
    /\ pc = "call"
    /\ ret = None
    /\ \/ op = "model_zscore"
          /\ args \in [series : {None} \cup {Some(s) : s \in AllSeries},
                       name : {"price_bias_z"}]
       \/ op = "price_zscore" /\ args \in [series : AllSeries]

ModelZscore ==
    /\ Call("model_zscore")
    /\ Return(Returned(model_zscore(args.series, args.name)))

PriceZscore ==
    /\ Call("price_zscore")
    /\ Return(Returned(price_zscore(args.series)))

NextZscore == ModelZscore \/ PriceZscore

SpecZscore == InitZscore /\ [][NextZscore]_vars

\* The series a z-score call was given, and the series it returned
ZscoreInput == IF op = "model_zscore" THEN args.series[1] ELSE args.series

ZscoreOutput == IF op = "model_zscore" THEN ret.value.values ELSE ret.value

\* C4: for every series whose standard deviation is zero or undefined (all
\* defined entries equal, all entries missing, or no entry), both z-score
\* helpers return a series over the same index whose every entry is 0.
C4_DegenerateIsZero ==
    /\ Done("model_zscore") /\ args.series # None /\ ~Varies(ZscoreInput) =>
          /\ DOMAIN ZscoreOutput = DOMAIN ZscoreInput
          /\ \A d \in DOMAIN ZscoreOutput : ZscoreOutput[d] = Zero
    /\ Done("price_zscore") /\ ~Varies(ZscoreInput) =>
          /\ DOMAIN ZscoreOutput = DOMAIN ZscoreInput
          /\ \A d \in DOMAIN ZscoreOutput : ZscoreOutput[d] = Zero

\* C4 witness: the Combiner's helper on a series with two equal defined
\* entries, not 0, and a missing one; the result is 0 at all three dates.
C4_Witness ==
    /\ Done("model_zscore")
    /\ args.series # None
    /\ Cardinality(NotNa(ZscoreInput)) >= 2
    /\ NotNa(ZscoreInput) # DOMAIN ZscoreInput
    /\ \A d \in NotNa(ZscoreInput) : ZscoreInput[d] = Int2V(1)
    /\ DOMAIN ZscoreOutput = DOMAIN ZscoreInput
    /\ \A d \in DOMAIN ZscoreOutput : ZscoreOutput[d] = Zero

-----------------------------------------------------------------------------
(* The price extractor: rolling_trend_slope on every table of up to        *)
(* MaxRows closes, with every window up to MaxWindow and the default one.  *)

MaxRows == 4

MaxWindow == 4

DefaultWindow == 60

Closes == {Int2V(1), Int2V(2), Int2V(4), NaN}

CloseColumns == UNION {[1..n -> Closes] : n \in 0..MaxRows}

InitPrice ==
    /\ pc = "call"
    /\ ret = None
    /\ op = "rolling_trend_slope"
    /\ args \in [df : [has_close : BOOLEAN, datetime_index : BOOLEAN,
                       Close : CloseColumns],
                 window : 1..MaxWindow \cup {DefaultWindow}]

RollingTrendSlope ==
    /\ Call("rolling_trend_slope")
    /\ Return(rolling_trend_slope(args.df, args.window))

NextPrice == RollingTrendSlope

SpecPrice == InitPrice /\ [][NextPrice]_vars

\* window * the least-squares slope of y[1..w] against 0..w-1, in closed
\* form: (12 * sum (j-1) y[j] - 6 (w-1) * sum y[j]) / (w^2 - 1); no line runs
\* through fewer than two points, and a missing log price leaves it undefined
TotalFittedReturn(y) ==
    LET w == Len(y)
    IN  IF w < 2 \/ \E j \in 1..w : IsNaN(y[j]) THEN NaN
        ELSE Num(12 * AsQ(SumSeq([j \in 1..w |-> Int2V((j - 1) * AsQ(y[j])[1])]))[1]
                   - 6 * (w - 1) * AsQ(SumSeq(y))[1],
                 w * w - 1)

\* C7: on a valid table, rolling_trend_slope returns a series over the input
\* index whose entry i (0-based) is undefined when i + 1 < window and is
\* otherwise computed from exactly the closes i + 1 - window .. i; with
\* window = 60 and fewer than 60 rows every entry is undefined.
C7_TrailingWindow ==
    Done("rolling_trend_slope") /\ validate_close(args.df) = "none" =>
        /\ ret.raised = "none"
        /\ DOMAIN ret.value = DOMAIN args.df.Close
        /\ \A r \in DOMAIN ret.value :
              LET i == r - 1
              IN  IF i + 1 < args.window THEN IsNaN(ret.value[r])
                  ELSE ret.value[r] =
                         TotalFittedReturn(
                           [j \in 1..args.window |->
                              Log2(args.df.Close[r - args.window + j])])
        /\ args.window = DefaultWindow /\ Len(args.df.Close) < DefaultWindow =>
              \A r \in DOMAIN ret.value : IsNaN(ret.value[r])

\* C7 witness: a window of 3 on 4 closes: the first two entries undefined, the
\* third and fourth defined and different (each from its own three closes).
C7_Witness ==
    /\ Done("rolling_trend_slope")
    /\ ret.raised = "none"
    /\ args.window = 3
    /\ Len(args.df.Close) = 4
    /\ IsNaN(ret.value[1]) /\ IsNaN(ret.value[2])
    /\ ~IsNaN(ret.value[3]) /\ ~IsNaN(ret.value[4])
    /\ ret.value[3] # ret.value[4]

-----------------------------------------------------------------------------
(* The sentiment combiner, on every pair of a news series with entries     *)
(* 0.2, 0.6 or missing and a social series with entries 0.1, 0.3 or        *)
(* missing, with the default weight and another.                           *)

NewsValues == {Num(1, 5), Num(3, 5), NaN}

SocialValues == {Num(1, 10), Num(3, 10), NaN}

default_weight_news == Num(3, 5)

InitSentiment ==
    /\ pc = "call"
    /\ ret = None
    /\ op = "combine_sentiment_scores"
    /\ args \in [news : UNION {[D -> NewsValues] : D \in SUBSET Dates},
                 social : UNION {[D -> SocialValues] : D \in SUBSET Dates},
                 weight_news : {default_weight_news, Num(1, 4)}]

CombineSentimentScores ==
    /\ Call("combine_sentiment_scores")
    /\ Return(Returned(combine_sentiment_scores(args.news, args.social,
                                                args.weight_news)))

NextSentiment == CombineSentimentScores

SpecSentiment == InitSentiment /\ [][NextSentiment]_vars

\* The mean of the defined entries of a series (undefined when it has none)
OwnMean(s) ==
    IF NotNa(s) = {} THEN NaN
    ELSE Div(SumKeys(s, NotNa(s)), Int2V(Cardinality(NotNa(s))))

\* The entry of s at a date of the union, filled with the series' own mean
Filled(s, d) == IF d \in NotNa(s) THEN s[d] ELSE OwnMean(s)

\* C8: the result is indexed by the union of the dates of news and social and
\* is weight_news * news + (1 - weight_news) * social at each of them, each
\* series' missing entries being filled with the mean of its own defined
\* entries.
C8_FilledWithOwnMean ==
    Done("combine_sentiment_scores") =>
        /\ DOMAIN ret.value = DOMAIN args.news \cup DOMAIN args.social
        /\ \A d \in DOMAIN ret.value :
              ret.value[d] =
                Add(Mul(args.weight_news, Filled(args.news, d)),
                    Mul(Sub(Int2V(1), args.weight_news), Filled(args.social, d)))

\* C8 witness: news = [0.2, -, 0.6] and social = [-, 0.1, 0.3] with the weight
\* 0.6: the fills are 0.4 and 0.2, the result [0.2, 0.28, 0.48].
C8_Witness ==
    /\ Done("combine_sentiment_scores")
    /\ args.weight_news = Num(3, 5)
    /\ args.news = (1 :> Num(1, 5)) @@ (3 :> Num(3, 5))
    /\ args.social = (2 :> Num(1, 10)) @@ (3 :> Num(3, 10))
    /\ Filled(args.news, 2) = Num(2, 5)
    /\ Filled(args.social, 1) = Num(1, 5)
    /\ ret.value = (1 :> Num(1, 5)) @@ (2 :> Num(7, 25)) @@ (3 :> Num(12, 25))

-----------------------------------------------------------------------------
(* The prediction-market aggregator, on every map of up to two markets to  *)
(* series of probabilities 0.3 and 0.7, or 0 and 1 (the fetch fills gaps   *)
(* forward, so a series holds no missing entry), with five weight          *)
(* arguments.                                                              *)

MarketIds == {"m1", "m2"}

Probabilities == {Num(3, 10), Num(7, 10)}

ProbabilitySeries == UNION {[D -> Probabilities] : D \in SUBSET Dates}

\* The series of markets that have settled: probability 0 or 1
SettledSeries == UNION {[D -> {Zero, Int2V(1)}] : D \in SUBSET Dates}

MarketWeightInputs ==
    {None,
     Some(<<>>),
     Some([m1 |-> Int2V(2)]),
     Some([m1 |-> Zero, m2 |-> Zero]),
     Some([m1 |-> Int2V(1), m2 |-> Int2V(-1)])}

InitPolymarket ==
    /\ pc = "call"
    /\ ret = None
    /\ op = "compute_polymarket_bias"
    /\ args \in [series_dict : UNION {[M -> ProbabilitySeries] \cup [M -> SettledSeries] :
                                        M \in SUBSET MarketIds},
                 weights : MarketWeightInputs]

ComputePolymarketBias ==
    /\ Call("compute_polymarket_bias")
    /\ Return(Returned(compute_polymarket_bias(args.series_dict, args.weights)))

NextPolymarket == ComputePolymarketBias

SpecPolymarket == InitPolymarket /\ [][NextPolymarket]_vars

\* C9: with a single market series and no weights, the result is, at every
\* date of the series, the probability minus 0.5 (weight 1, no z-scoring).
C9_SingleMarketRecentred ==
    Done("compute_polymarket_bias") /\ args.weights = None
      /\ Cardinality(DOMAIN args.series_dict) = 1 =>
        \A m \in DOMAIN args.series_dict :
            /\ DOMAIN ret.value = DOMAIN args.series_dict[m]
            /\ \A d \in DOMAIN ret.value :
                  ret.value[d] = Sub(args.series_dict[m][d], Num(1, 2))

\* C9 witness: one market at the constant 0.7 on every date, no weights: the
\* result is the constant 0.2.
C9_Witness ==
    /\ Done("compute_polymarket_bias")
    /\ args.weights = None
    /\ args.series_dict = [m \in {"m1"} |-> [d \in Dates |-> Num(7, 10)]]
    /\ ret.value = [d \in Dates |-> Num(1, 5)]

\* The dates every given market has, and the sum of the weights the call
\* gives the markets (1 each without a weight map, 0 for a market it omits)
MarketDates ==
    {d \in Dates : \A m \in DOMAIN args.series_dict : d \in DOMAIN args.series_dict[m]}

MarketWeight(m) ==
    IF args.weights = None THEN Int2V(1) ELSE DictGet(args.weights[1], m)

MarketWeightSum ==
    SumKeys([m \in DOMAIN args.series_dict |-> MarketWeight(m)],
            DOMAIN args.series_dict)

\* C10: compute_polymarket_bias raises nothing and returns an empty series
\* (no entry, so no NaN) when the series map is empty, when the given series
\* share no date, and when the weights of the aligned markets sum to zero.
C10_NoSignalIsEmpty ==
    Done("compute_polymarket_bias")
      /\ (\/ DOMAIN args.series_dict = {}
          \/ MarketDates = {}
          \/ MarketWeightSum = Zero) =>
        /\ ret.raised = "none"
        /\ ret.value = EmptySeries

\* C10 witness: two markets with a date in common and weights 1 and -1, which
\* sum to zero: the result is empty.
C10_Witness ==
    /\ Done("compute_polymarket_bias")
    /\ DOMAIN args.series_dict = MarketIds
    /\ MarketDates # {}
    /\ \E d \in MarketDates : args.series_dict["m1"][d] # args.series_dict["m2"][d]
    /\ args.weights # None
    /\ MarketWeight("m1") = Int2V(1) /\ MarketWeight("m2") = Int2V(-1)
    /\ ret.value = EmptySeries

\* Every weight of the call multiplied by k, as a weight map
ScaledWeights(k) ==
    Some([m \in DOMAIN args.series_dict |-> Mul(Int2V(k), MarketWeight(m))])

\* a <= b, for two values without a square root
Leq(a, b) == AsQ(a)[1] * AsQ(b)[2] <= AsQ(b)[1] * AsQ(a)[2]

\* n / 2 for the n markets of the call
HalfMarkets == Num(Cardinality(DOMAIN args.series_dict), 2)

-----------------------------------------------------------------------------
(* The fragility engine, on every pair of a series with entries 0, 1 or    *)
(* missing and a series of probabilities, with a window of 1 (no           *)
(* smoothing), of 4 (two observations needed) and the default.             *)

default_fragility_window == 30

default_divergence_window == 20

InitBiasFragility ==
    /\ pc = "call"
    /\ ret = None
    /\ op = "bias_fragility"
    /\ args \in [price_score : AllSeries, sentiment_score : ProbabilitySeries,
                 window : {1, 4, default_fragility_window}]

InitDivergence ==
    /\ pc = "call"
    /\ ret = None
    /\ op = "compute_polymarket_divergence"
    /\ args \in [prevailing_bias : AllSeries,
                 polymarket_bias : ProbabilitySeries,
                 window : {1, 4, default_divergence_window}]

InitFragility == InitBiasFragility \/ InitDivergence

BiasFragility ==
    /\ Call("bias_fragility")
    /\ Return(Returned(bias_fragility(args.price_score, args.sentiment_score,
                                      args.window)))

ComputePolymarketDivergence ==
    /\ Call("compute_polymarket_divergence")
    /\ Return(Returned(compute_polymarket_divergence(
                           args.prevailing_bias, args.polymarket_bias, args.window)))

NextFragility == BiasFragility \/ ComputePolymarketDivergence

SpecFragility == InitFragility /\ [][NextFragility]_vars

\* The calls of compute_polymarket_divergence alone
NextDivergence == ComputePolymarketDivergence

SpecDivergence == InitDivergence /\ [][NextDivergence]_vars

\* A column has zero variance when it has a defined entry and its defined
\* entries are all equal
ZeroVariance(s) == NotNa(s) # {} /\ ~Varies(s)

\* The number of rows of the rolling window ending at d where s is defined
Observations(s, d, window) ==
    Cardinality(Trailing(DOMAIN s, d, window) \cap NotNa(s))

\* The two columns of bias_fragility, on the union of the two indices
FragilityColumn(c) ==
    Reindex(IF c = 1 THEN args.price_score ELSE args.sentiment_score,
            DOMAIN args.price_score \cup DOMAIN args.sentiment_score)

\* The two columns of compute_polymarket_divergence, on the common dates
DivergenceColumn(c) ==
    [d \in DOMAIN args.prevailing_bias \cap DOMAIN args.polymarket_bias |->
        IF c = 1 THEN args.prevailing_bias[d] ELSE args.polymarket_bias[d]]

\* The dates where both columns of the divergence are defined
BothDefined == NotNa(DivergenceColumn(1)) \cap NotNa(DivergenceColumn(2))

\* C6: when an input column has zero variance over the concatenated/aligned
\* rows, its z-scores are zeros, so the fragility and the divergence are
\* defined at every row where the rolling minimum-period is met: for the
\* fragility, where some column has at least max(1, window / 2) defined
\* entries in the window; for the divergence, where both columns are defined
\* (window 1) or at least max(1, window / 2) rows of the window have both
\* defined.
C6_DefinedOnZeroVariance ==
    /\ Done("bias_fragility")
         /\ (ZeroVariance(FragilityColumn(1)) \/ ZeroVariance(FragilityColumn(2))) =>
          \A d \in DOMAIN ret.value :
              (\E c \in 1..2 :
                  Observations(FragilityColumn(c), d, args.window)
                    >= Max(1, Half(args.window)))
              => ~IsNaN(ret.value[d])
    /\ Done("compute_polymarket_divergence")
         /\ (ZeroVariance(DivergenceColumn(1)) \/ ZeroVariance(DivergenceColumn(2))) =>
          \A d \in DOMAIN ret.value :
              (IF args.window > 1
               THEN Cardinality(Trailing(DOMAIN ret.value, d, args.window)
                                  \cap BothDefined) >= Max(1, Half(args.window))
               ELSE d \in BothDefined)
              => ~IsNaN(ret.value[d])

\* C6 on the columns that vary: with no zero-variance column, both results
\* are defined wherever the minimum-period is met.
C6_DefinedOnVaryingColumns ==
    /\ Done("bias_fragility")
         /\ Varies(FragilityColumn(1)) /\ Varies(FragilityColumn(2)) =>
          \A d \in DOMAIN ret.value :
              (\E c \in 1..2 :
                  Observations(FragilityColumn(c), d, args.window)
                    >= Max(1, Half(args.window)))
              => ~IsNaN(ret.value[d])
    /\ Done("compute_polymarket_divergence")
         /\ Varies(DivergenceColumn(1)) /\ Varies(DivergenceColumn(2)) =>
          \A d \in DOMAIN ret.value :
              (IF args.window > 1
               THEN Cardinality(Trailing(DOMAIN ret.value, d, args.window)
                                  \cap BothDefined) >= Max(1, Half(args.window))
               ELSE d \in BothDefined)
              => ~IsNaN(ret.value[d])

\* The dates the two inputs of compute_polymarket_divergence share
SharedDates == DOMAIN args.prevailing_bias \cap DOMAIN args.polymarket_bias

\* C11: compute_polymarket_divergence returns an empty series whenever
\* either input is empty or the two inputs share no date, whatever the other
\* input and the window are; otherwise the index of the result is the
\* intersection of the two inputs' dates.
C11_EmptyOrSharedDates ==
    Done("compute_polymarket_divergence") =>
        /\ ret.raised = "none"
        /\ (\/ args.prevailing_bias = EmptySeries
            \/ args.polymarket_bias = EmptySeries
            \/ SharedDates = {}) => ret.value = EmptySeries
        /\ DOMAIN ret.value = SharedDates

\* Two non-empty inputs that overlap on some but not all of their dates, with
\* smoothing
C11_Witness ==
    /\ Done("compute_polymarket_divergence")
    /\ args.window > 1
    /\ SharedDates # {}
    /\ SharedDates # DOMAIN args.prevailing_bias
    /\ SharedDates # DOMAIN args.polymarket_bias
    /\ DOMAIN ret.value = SharedDates

-----------------------------------------------------------------------------
(* The daily aggregation, on every table of up to MaxItems scored items    *)
(* over two dates (or none), two channels and sentiments 0, 1 or missing,  *)
(* under every choice of columns among date, channel, sentiment, title.    *)

MaxItems == 3

ItemColumns == required_cols \cup {"title"}

Items ==
    [date : {1, 2, NaT}, channel : {"news", "social"},
     sentiment : RawValues, title : {""}]

\* The tables with the columns cols and the rows of items
Tables(cols, items) ==
    [columns |-> cols,
     rows    |-> [i \in DOMAIN items |-> [c \in cols |-> items[i][c]]]]

InitAggregation ==
    /\ pc = "call"
    /\ ret = None
    /\ op = "aggregate_daily_sentiment"
    /\ \E cols \in SUBSET ItemColumns, n \in 0..MaxItems :
         \E items \in [1..n -> Items] : args = [df |-> Tables(cols, items)]

AggregateDailySentiment ==
    /\ Call("aggregate_daily_sentiment")
    /\ Return(aggregate_daily_sentiment(args.df))

NextAggregation == AggregateDailySentiment

SpecAggregation == InitAggregation /\ [][NextAggregation]_vars

\* The required columns the input table lacks
LackedColumns == required_cols \ args.df.columns

\* The input table has a row and a column
NonEmptyInput == args.df.rows # <<>> /\ args.df.columns # {}

\* The items that have a date: the ones that belong to a (date, channel) group
DatedItems == {i \in DOMAIN args.df.rows : args.df.rows[i].date # NaT}

\* The items of one group, and the ones among them with a sentiment
ItemsOf(d, c) ==
    {i \in DatedItems : args.df.rows[i].date = d /\ args.df.rows[i].channel = c}

ScoredItemsOf(d, c) == {i \in ItemsOf(d, c) : ~IsNaN(args.df.rows[i].sentiment)}

\* cell is the mean of the sentiments of the scored items of the group (d, c):
\* cell * count = sum; a group with no scored item has no mean
IsGroupMean(cell, d, c) ==
    IF ScoredItemsOf(d, c) = {} THEN IsNaN(cell)
    ELSE /\ ~IsNaN(cell)
         /\ Mul(cell, Int2V(Cardinality(ScoredItemsOf(d, c))))
              = SumOver([i \in ScoredItemsOf(d, c) |-> args.df.rows[i].sentiment],
                        ScoredItemsOf(d, c))

\* C12: aggregate_daily_sentiment fails with a validation error naming the
\* missing columns whenever a non-empty input lacks any of date, channel,
\* sentiment; an empty input is never an error and yields an empty table; for
\* valid non-empty input the result has one row per distinct date and one
\* column per distinct channel (of the items that have a date: an item
\* without one is in no group), each cell being the mean sentiment of the
\* items of that (date, channel) group.
C12_AggregateDaily ==
    Done("aggregate_daily_sentiment") =>
        /\ (NonEmptyInput /\ LackedColumns # {}) =>
              ret.raised = "ValueError" /\ ret.value = LackedColumns
        /\ ~NonEmptyInput => ret.raised = "none" /\ ret.value.index = {}
        /\ (NonEmptyInput /\ LackedColumns = {}) =>
              /\ ret.raised = "none"
              /\ ret.value.index = {args.df.rows[i].date : i \in DatedItems}
              /\ Range(ret.value.columns)
                   = {args.df.rows[i].channel : i \in DatedItems}
              /\ Len(ret.value.columns) = Cardinality(Range(ret.value.columns))
              /\ \A c \in Range(ret.value.columns) : \A d \in ret.value.index :
                    IsGroupMean(ret.value.data[c][d], d, c)

\* Three items with the three columns and a title: two news items of one date
\* with sentiments 0 and 1 (mean 1/2) and a social item of another date, so
\* that the table has a cell with no item
C12_Witness ==
    /\ Done("aggregate_daily_sentiment")
    /\ args.df.columns = ItemColumns
    /\ ret.raised = "none"
    /\ ret.value.index = {1, 2}
    /\ ret.value.columns = <<"news", "social">>
    /\ ret.value.data["news"][1] = Num(1, 2)
    /\ IsNaN(ret.value.data["news"][2])
    /\ ~IsNaN(ret.value.data["social"][2])

-----------------------------------------------------------------------------
(* sentiment/features.py, model/prevailing_bias_model.py (the engine) and  *)
(* visualization/bias_dashboard.py.  The network collaborators (get_ohlcv, *)
(* the news and social providers, the scorer) are outside the model: a run *)
(* starts from what they deliver, the price score over the price index and *)
(* the daily news and social series (empty when a provider has no data).   *)

\* DataFrame.get(key, default)
FrameGet(df, key, default) ==
    IF key \in Range(df.columns) THEN df.data[key] ELSE default

\* DataFrame.get(key): the column, or None
FrameGetOptional(df, key) ==
    IF key \in Range(df.columns) THEN Some(df.data[key]) ELSE None

\* sentiment_feature_series, lines 38-51: pd.DataFrame of the three series,
\* on the union of their indices
sentiment_feature_series(news_series, social_series) ==
    LET combined == combine_sentiment_scores(news_series, social_series,
                                             default_weight_news)
        idx      == DOMAIN news_series \cup DOMAIN social_series
                      \cup DOMAIN combined
    IN  [index   |-> idx,
         columns |-> <<"news_sentiment", "social_sentiment", "combined_sentiment">>,
         data    |-> [c \in {"news_sentiment", "social_sentiment",
                             "combined_sentiment"} |->
                        Reindex(IF c = "news_sentiment" THEN news_series
                                ELSE IF c = "social_sentiment" THEN social_series
                                ELSE combined, idx)]]

\* The fields of PrevailingBiasResult
PrevailingBiasResult ==
    {"price_bias", "news_sentiment", "social_sentiment", "options_bias",
     "polymarket_bias", "prevailing_bias", "features", "fragility"}

\* PrevailingBiasModel.run, from the sentiment frame on
RunWith(price_score, sentiment_df, polymarket_bias) ==
    LET news_sentiment   == FrameGetOptional(sentiment_df, "news_sentiment")
        social_sentiment == FrameGetOptional(sentiment_df, "social_sentiment")
        options_bias     == Zeros(DOMAIN price_score)
        feature_frame    ==
            compute_prevailing_bias(
                [price      |-> Some(price_score),
                 news       |-> news_sentiment,
                 social     |-> social_sentiment,
                 options    |-> Some(options_bias),
                 polymarket |-> polymarket_bias],
                None)
    IN  [price_bias       |-> price_score,
         news_sentiment   |-> news_sentiment,
         social_sentiment |-> social_sentiment,
         options_bias     |-> Some(options_bias),
         polymarket_bias  |-> polymarket_bias,
         prevailing_bias  |-> FrameGet(feature_frame, "prevailing_bias", EmptySeries),
         features         |-> feature_frame,
         fragility        |->
             bias_fragility(price_score,
                            FrameGet(sentiment_df, "combined_sentiment", EmptySeries),
                            default_fragility_window)]

run(price_score, news_series, social_series, polymarket_bias) ==
    RunWith(price_score, sentiment_feature_series(news_series, social_series),
            polymarket_bias)

\* The sections of the dashboard, in the order main() renders them: each
\* reads the attribute of the result that it is named after here
Sections == <<"price_bias", "sentiment_bias", "combined_bias", "fragility">>

\* The position after section number k
AfterSection(k) == IF k < Len(Sections) THEN Sections[k + 1] ELSE "return"

\* The daily series of a provider: a sentiment per date of some dates, or none
SentimentRamp(D) == [d \in D |-> Num(d, 10)]

DailySentiment == {SentimentRamp(D) : D \in SUBSET Dates}

\* The price score: a score per date of the price index, or no price at all
PriceScores == [Dates -> {Zero, Int2V(1)}] \cup {EmptySeries}

RunInputs ==
    [price_score     : PriceScores,
     news_series     : DailySentiment,
     social_series   : DailySentiment,
     polymarket_bias : {None, Some(Ramp(1..(MaxDate - 1)))}]

InitRun ==
    /\ pc = "call"
    /\ ret = None
    /\ op = "run"
    /\ args \in RunInputs

Run ==
    /\ Call("run")
    /\ Return(Returned(run(args.price_score, args.news_series,
                           args.social_series, args.polymarket_bias)))

\* The engine: the Combiner's two functions and run()
InitEngine == InitCombiner \/ InitRun

NextEngine == AlignAndStandardize \/ ComputePrevailingBias \/ Run

SpecEngine == InitEngine /\ [][NextEngine]_vars

InitDashboard ==
    /\ pc = "call"
    /\ ret = None
    /\ op = "main"
    /\ args \in RunInputs

\* Lines 30-33: the button is pressed and the model runs
RunModel ==
    /\ Call("main")
    /\ pc' = Sections[1]
    /\ ret' = Returned(run(args.price_score, args.news_series,
                           args.social_series, args.polymarket_bias))
    /\ UNCHANGED <<op, args>>

\* Lines 35-45: one section is rendered; reading an attribute the result
\* does not have raises AttributeError, which ends main()
RenderSection ==
    /\ op = "main"
    /\ \E k \in DOMAIN Sections :
         /\ pc = Sections[k]
         /\ IF Sections[k] \in DOMAIN ret.value
            THEN pc' = AfterSection(k) /\ ret' = ret
            ELSE pc' = "error" /\ ret' = Raised("AttributeError")
    /\ UNCHANGED <<op, args>>

NextDashboard == RunModel \/ RenderSection

SpecDashboard == InitDashboard /\ [][NextDashboard]_vars

\* C13: the dashboard can read the result object produced by the engine:
\* every field the dashboard reads from the value returned by run() is a
\* field of PrevailingBiasResult, so after a successful run the dashboard
\* renders all its sections without reaching an error state.
C13_DashboardReadsResult ==
    op = "main" /\ pc # "call" =>
        /\ pc # "error"
        /\ pc \in Range(Sections) => pc \in DOMAIN ret.value

\* A component is supplied to the Combiner call but has no entry
SuppliedEmpty == \E k \in Supplied : args.comps[k][1] = EmptySeries

\* The dates run() can score when one sentiment series has data: the price
\* dates that the sentiment frame and the prediction-market series share
ScoredDates ==
    {d \in DOMAIN args.price_score :
        /\ d \in DOMAIN args.news_series \cup DOMAIN args.social_series
        /\ args.polymarket_bias # None => d \in DOMAIN args.polymarket_bias[1]}

\* The z-scored column of a sentiment series that has no data, in a run where
\* the other one has: zeros
ZerosForNoData(features) ==
    /\ args.news_series = EmptySeries =>
         \A d \in features.index : features.data["news_bias_z"][d] = Zero
    /\ args.social_series = EmptySeries =>
         \A d \in features.index : features.data["social_bias_z"][d] = Zero

\* C14 as stated: a supplied but empty component gives a frame with no rows
\* from align_and_standardize and no prevailing_bias column from
\* compute_prevailing_bias, and run() reports an empty prevailing_bias
\* whenever either the news or the social series has no data.
C14_EitherWithoutData ==
    /\ Done("align_and_standardize") /\ SuppliedEmpty =>
          ret.value.index = {} /\ ret.value.columns = SuppliedColumns
    /\ Done("compute_prevailing_bias") /\ SuppliedEmpty =>
          ret.value.index = {} /\ ~HasColumn(ret.value, "prevailing_bias")
    /\ Done("run") /\ (\/ args.news_series = EmptySeries
                       \/ args.social_series = EmptySeries) =>
          ret.value.prevailing_bias = EmptySeries

\* C14: a component that is supplied but empty is treated as present:
\* align_and_standardize returns a frame with no rows (and a column per
\* supplied component), compute_prevailing_bias returns it with no
\* prevailing_bias column, and run() reports an empty prevailing_bias when
\* both the news and the social series have no data.  When only one of them
\* has no data, run() passes it on as a column of missing values over the
\* other's dates: it is z-scored to zeros and prevailing_bias is reported on
\* every price date that the other series (and the prediction-market series,
\* if given) has.
C14_BothWithoutData ==
    /\ Done("align_and_standardize") /\ SuppliedEmpty =>
          ret.value.index = {} /\ ret.value.columns = SuppliedColumns
    /\ Done("compute_prevailing_bias") /\ SuppliedEmpty =>
          ret.value.index = {} /\ ~HasColumn(ret.value, "prevailing_bias")
    /\ Done("run") =>
          IF args.news_series = EmptySeries /\ args.social_series = EmptySeries
          THEN /\ ret.value.prevailing_bias = EmptySeries
               /\ ret.value.features.index = {}
               /\ ~HasColumn(ret.value.features, "prevailing_bias")
          ELSE /\ DOMAIN ret.value.prevailing_bias = ScoredDates
               /\ ZerosForNoData(ret.value.features)

\* A run with a price score on every date, no news and a social series: the
\* prevailing bias is reported on the dates of the social series
C14_Witness ==
    /\ Done("run")
    /\ DOMAIN args.price_score = Dates
    /\ args.news_series = EmptySeries
    /\ args.social_series # EmptySeries
    /\ ret.value.prevailing_bias # EmptySeries
    /\ DOMAIN ret.value.prevailing_bias = DOMAIN args.social_series

-----------------------------------------------------------------------------
(* Every call of the package.                                              *)

Init ==
    \/ InitCombiner
    \/ InitZscore
    \/ InitPrice
    \/ InitSentiment
    \/ InitPolymarket
    \/ InitFragility
    \/ InitAggregation
    \/ InitRun
    \/ InitDashboard

Next ==
    \/ AlignAndStandardize
    \/ ComputePrevailingBias
    \/ ModelZscore
    \/ PriceZscore
    \/ RollingTrendSlope
    \/ CombineSentimentScores
    \/ ComputePolymarketBias
    \/ BiasFragility
    \/ ComputePolymarketDivergence
    \/ AggregateDailySentiment
    \/ Run
    \/ RunModel
    \/ RenderSection

Spec == Init /\ [][Next]_vars

====
